---- MODULE Spec2Model ----
(***************************************************************************)
(* Model of the image stitcher of src/src/pages/Home.vue: the reactive     *)
(* state of the component, its event handlers, and the compositing done by *)
(* stitchImages.                                                           *)
(*                                                                         *)
(* An image is the record [width, height] of its decoded pixel size; the   *)
(* data URL of an uploaded image is identified with that record.  The      *)
(* stitched data URL is modelled by what it encodes: the canvas size, the  *)
(* background fill and the list of draws (which image, where, how large).  *)
(* The output slot stitchedImageUrl is <<>> for the empty string and       *)
(* <<picture>> otherwise.                                                  *)
(*                                                                         *)
(* Numbers: widths and heights are whole pixels.  The resize pass computes *)
(* target * (width / height) in floating point and assigns it to           *)
(* canvas.width, which converts to an unsigned long by truncation.  For    *)
(* extents up to 8 the IEEE double result truncates to the exact integer   *)
(* quotient (the first divergence is 9 / (9 / 7) = 6.999...), so the model *)
(* uses \div and keeps MaxDim below that.                                  *)
(***************************************************************************)
EXTENDS Integers, Sequences, FiniteSets

\* Bounds of the model.
MaxImages == 2      \* images held by the page at once (Spec)
MaxInflight == 2    \* stitchImages invocations awaiting their decodes
MaxBatches == 1     \* file selections still loading
MaxDim == 2         \* largest width / height of an image (SpecComposite)
MaxLen == 3         \* longest image sequence (SpecComposite)

VARIABLES
    uploadedImages,      \* ref<UploadedImage[]>
    stitchedImageUrl,    \* ref<string>: <<>> or <<picture>>
    isStitching,         \* ref(false)
    layoutSelected,      \* "Horizontal" | "Vertical"
    backgroundSelected,  \* "Transparent" | "Color"
    backgroundColor,     \* colour string, as a sequence of tokens
    adjustSizeSelected,  \* "None" | "Min" | "Max"
    inflight,            \* the images of each stitchImages invocation suspended at its await
    loading,             \* onFileSelect batches whose files are still loading
    ev,                  \* what the last event did (observation, not program state)
    lastMoves            \* the last two reorderings (observation, kept by SpecReorder)

vars == <<uploadedImages, stitchedImageUrl, isStitching, layoutSelected,
          backgroundSelected, backgroundColor, adjustSizeSelected,
          inflight, loading, ev, lastMoves>>

config == <<layoutSelected, backgroundSelected, backgroundColor, adjustSizeSelected>>

----------------------------------------------------------------------------
\* Options offered by the three SelectButtons and the colour picker.

layoutOptions == {"Horizontal", "Vertical"}

backgroundOptions == {"Transparent", "Color"}

adjustSizeOptions == {"None", "Min", "Max"}

\* The picker runs with format="hex": it yields the digits without the "#".
pickerColors == {<<"ff0000">>}

\* Files the user can pick in Spec: two images and one file that is no image.
Catalogue ==
    { [type |-> "image/png", width |-> 1, height |-> 3],
      [type |-> "image/png", width |-> 2, height |-> 1],
      [type |-> "text/plain", width |-> 0, height |-> 0] }

isImageFile(file) == file.type \in {"image/png"}

imageData(file) == [width |-> file.width, height |-> file.height]

----------------------------------------------------------------------------
\* Arithmetic helpers.

RECURSIVE sumWidths(_)
sumWidths(s) == IF s = <<>> THEN 0 ELSE Head(s).width + sumWidths(Tail(s))

RECURSIVE sumHeights(_)
sumHeights(s) == IF s = <<>> THEN 0 ELSE Head(s).height + sumHeights(Tail(s))

Range(s) == { s[i] : i \in 1..Len(s) }

mathMin(S) == CHOOSE m \in S : \A x \in S : m <= x

mathMax(S) == CHOOSE m \in S : \A x \in S : m >= x

\* canvas.width = num/den: the unsigned long conversion truncates.
truncateToPixels(num, den) == num \div den

----------------------------------------------------------------------------
\* The compositing of stitchImages, after the await.

\* Lines 140-161: the target size of one image before the aspect correction.
targetSize(img, images, layout, adjust) ==
    IF layout = "Horizontal"
    THEN [width  |-> img.width,
          height |-> CASE adjust = "Min" -> mathMin({ i.height : i \in Range(images) })
                       [] adjust = "Max" -> mathMax({ i.height : i \in Range(images) })
                       [] OTHER -> img.height]
    ELSE [width  |-> CASE adjust = "Min" -> mathMin({ i.width : i \in Range(images) })
                       [] adjust = "Max" -> mathMax({ i.width : i \in Range(images) })
                       [] OTHER -> img.width,
          height |-> img.height]

\* Lines 163-178: aspectRatio = width / height; Horizontal sets the width to
\* targetHeight * aspectRatio, Vertical the height to targetWidth / aspectRatio;
\* the canvas keeps the truncated values.
resizedSize(img, target, layout) ==
    IF layout = "Horizontal"
    THEN [width  |-> truncateToPixels(target.height * img.width, img.height),
          height |-> target.height]
    ELSE [width  |-> target.width,
          height |-> truncateToPixels(target.width * img.height, img.width)]

\* Lines 134-182: one image of the resize pass.  Without a 2D context for
\* the scratch canvas the image itself is returned.
resizeImage(img, images, layout, adjust, ctxOk) ==
    IF ~ctxOk
    THEN [src |-> img, width |-> img.width, height |-> img.height]
    ELSE LET size == resizedSize(img, targetSize(img, images, layout, adjust), layout)
         IN  [src |-> img, width |-> size.width, height |-> size.height]

\* Lines 131-183: adjustedImages.
adjustImages(images, layout, adjust, ctxs) ==
    IF adjust # "None"
    THEN [ i \in 1..Len(images) |->
             resizeImage(images[i], images, layout, adjust, ctxs[i]) ]
    ELSE [ i \in 1..Len(images) |->
             [src |-> images[i], width |-> images[i].width, height |-> images[i].height] ]

canvasDimensionsMaxOnly(adjusted, layout) ==
    [width  |-> mathMax({ i.width : i \in Range(adjusted) }),
     height |-> mathMax({ i.height : i \in Range(adjusted) })]

\* Lines 185-201: the size of the output canvas.
canvasDimensions(adjusted, layout) ==
    IF layout = "Horizontal"
    THEN [width  |-> sumWidths(adjusted),
          height |-> mathMax({ i.height : i \in Range(adjusted) })]
    ELSE [width  |-> mathMax({ i.width : i \in Range(adjusted) }),
          height |-> sumHeights(adjusted)]

\* Lines 207-212: the fill colour, with the "#" the picker leaves out.
fillColor(color) ==
    LET c == IF color = <<>> THEN <<"#", "ffffff">> ELSE color
    IN  IF c[1] # "#" THEN <<"#">> \o c ELSE c

\* Lines 203-217 and 236-242: what the canvas holds behind the images.
canvasBackground(background, color) ==
    IF background = "Color" THEN fillColor(color) ELSE <<"transparent">>

\* drawImage throws InvalidStateError for a source canvas of width or height 0.
drawable(img) == img.width > 0 /\ img.height > 0

advanceByOne(pos, img, layout) ==
    IF layout = "Horizontal"
    THEN [x |-> pos.x + 1, y |-> pos.y]
    ELSE [x |-> pos.x, y |-> pos.y + 1]

\* Lines 226-232: the offsets after drawing img.
advance(pos, img, layout) ==
    IF layout = "Horizontal"
    THEN [x |-> pos.x + img.width, y |-> pos.y]
    ELSE [x |-> pos.x, y |-> pos.y + img.height]

\* Lines 226-232: where img is drawn.
drawAt(pos, img, layout) ==
    IF layout = "Horizontal"
    THEN [src |-> img.src, x |-> pos.x, y |-> 0, width |-> img.width, height |-> img.height]
    ELSE [src |-> img.src, x |-> 0, y |-> pos.y, width |-> img.width, height |-> img.height]

\* Lines 219-233: the draw loop; ok is FALSE when a drawImage threw.
RECURSIVE drawImages(_, _, _, _)
drawImages(adjusted, pos, layout, done) ==
    IF adjusted = <<>> THEN [ok |-> TRUE, draws |-> done]
    ELSE IF ~drawable(Head(adjusted)) THEN [ok |-> FALSE, draws |-> done]
    ELSE drawImages(Tail(adjusted), advance(pos, Head(adjusted), layout), layout,
                    Append(done, drawAt(pos, Head(adjusted), layout)))

\* Lines 130-242: from the decoded images to the data URL (ok) or the throw.
composite(images, layout, adjust, background, color, ctxs) ==
    LET adjusted == adjustImages(images, layout, adjust, ctxs)
        dims == canvasDimensions(adjusted, layout)
        drawn == drawImages(adjusted, [x |-> 0, y |-> 0], layout, <<>>)
    IN  [ok |-> drawn.ok,
         picture |-> [width |-> dims.width, height |-> dims.height,
                      background |-> canvasBackground(background, color),
                      draws |-> drawn.draws]]

----------------------------------------------------------------------------
\* stitchImages, up to its await.

noEvent == [op |-> "init", stitch |-> "none", ctx |-> "ok"]

noMove == [op |-> "none", index |-> 0, before |-> <<>>]

noMoves == [last |-> noMove, prev |-> noMove]

insufficientImagesBelowOne(imgs) == Len(imgs) < 1

\* Line 98: the precondition.
insufficientImages(imgs) == Len(imgs) < 2

resetOnSuccessOnly(busy, threw) == IF threw THEN busy ELSE FALSE

\* Lines 250-252: the finally block's value for isStitching (busy is the value
\* line 108 set, threw tells whether the catch ran).
finallyIsStitching(busy, threw) == FALSE

\* The model's cap on suspended invocations.
canStart(imgs) == ~insufficientImages(imgs) => Len(inflight) < MaxInflight

\* Lines 97-128.  imgs and url are uploadedImages and stitchedImageUrl as the
\* calling handler left them.  With too few images: the toast and nothing
\* else.  Otherwise isStitching is set; without a 2D context for the output
\* canvas the throw is caught and the finally block runs at once; with one,
\* the decodes of imgs are started and the invocation suspends.
stitchImages(op, imgs, url) ==
    /\ uploadedImages' = imgs
    /\ IF insufficientImages(imgs)
       THEN /\ isStitching' = isStitching
            /\ inflight' = inflight
            /\ stitchedImageUrl' = url
            /\ ev' = [op |-> op, stitch |-> "insufficient", ctx |-> "ok"]
       ELSE \E ctxOk \in BOOLEAN :
              IF ctxOk
              THEN /\ isStitching' = TRUE
                   /\ inflight' = Append(inflight, imgs)
                   /\ stitchedImageUrl' = url
                   /\ ev' = [op |-> op, stitch |-> "started", ctx |-> "ok"]
              ELSE /\ isStitching' = finallyIsStitching(TRUE, TRUE)
                   /\ inflight' = inflight
                   /\ stitchedImageUrl' = url
                   /\ ev' = [op |-> op, stitch |-> "ctxError", ctx |-> "noOutput"]

removeAt(s, i) == SubSeq(s, 1, i - 1) \o SubSeq(s, i + 1, Len(s))

\* Lines 120-128 and 130-253: the decodes of invocation i have all finished
\* (Promise.all is an all-or-nothing join: the single decodes change nothing
\* the page can see), and the rest of stitchImages runs: it reads the
\* configuration as it is now, asks for one 2D context per image when a size
\* adjustment is selected, and either writes the data URL or catches the
\* throw; the finally block clears isStitching.
imagesDecoded(i) ==
    /\ i \in 1..Len(inflight)
    /\ \E ctxs \in [1..Len(inflight[i]) -> BOOLEAN] :
         /\ adjustSizeSelected = "None" => \A k \in DOMAIN ctxs : ctxs[k]
         /\ LET r == composite(inflight[i], layoutSelected, adjustSizeSelected,
                               backgroundSelected, backgroundColor, ctxs)
            IN  /\ stitchedImageUrl' = IF r.ok THEN <<r.picture>> ELSE stitchedImageUrl
                /\ ev' = [op |-> "imagesDecoded",
                          stitch |-> IF r.ok THEN "success" ELSE "drawError",
                          ctx |-> IF \A k \in DOMAIN ctxs : ctxs[k]
                                  THEN "ok" ELSE "noResize"]
                /\ isStitching' = finallyIsStitching(TRUE, ~r.ok)
    /\ inflight' = removeAt(inflight, i)
    /\ UNCHANGED <<uploadedImages, config, loading>>

----------------------------------------------------------------------------
\* Uploading.

RECURSIVE pendingFiles(_)
pendingFiles(batches) ==
    IF batches = <<>> THEN 0
    ELSE Cardinality(Head(batches)) + pendingFiles(Tail(batches))

\* Lines 35-84, up to the readers: the files that are no images are dropped;
\* with none left only a toast is shown; otherwise every image starts loading
\* and loadRemaining counts them (here: the size of the batch).
onFileSelect(files) ==
    LET imageFiles == { imageData(f) : f \in { g \in files : isImageFile(g) } }
    IN  /\ files # {}
        /\ IF imageFiles = {}
           THEN loading' = loading
           ELSE /\ Len(loading) < MaxBatches
                /\ Len(uploadedImages) + pendingFiles(loading) + Cardinality(imageFiles)
                     <= MaxImages
                /\ loading' = Append(loading, imageFiles)
        /\ ev' = [op |-> "onFileSelect", stitch |-> "none", ctx |-> "ok"]
        /\ UNCHANGED <<uploadedImages, stitchedImageUrl, isStitching, inflight, config>>

\* Lines 56-81: img.onload of one file of batch b: the image is pushed, and
\* the one that brings loadRemaining to 0 calls stitchImages.
imageLoaded(b, img) ==
    /\ b \in 1..Len(loading)
    /\ img \in loading[b]
    /\ LET images == Append(uploadedImages, img)
           loadRemaining == Cardinality(loading[b]) - 1
       IN  IF loadRemaining = 0
           THEN /\ canStart(images)
                /\ stitchImages("imageLoaded", images, stitchedImageUrl)
                /\ loading' = removeAt(loading, b)
           ELSE /\ uploadedImages' = images
                /\ loading' = [loading EXCEPT ![b] = @ \ {img}]
                /\ ev' = [op |-> "imageLoaded", stitch |-> "none", ctx |-> "ok"]
                /\ UNCHANGED <<stitchedImageUrl, isStitching, inflight>>
    /\ UNCHANGED config

\* Lines 86-95.
onFileClear ==
    /\ uploadedImages' = <<>>
    /\ stitchedImageUrl' = <<>>
    /\ ev' = [op |-> "onFileClear", stitch |-> "none", ctx |-> "ok"]
    /\ UNCHANGED <<isStitching, inflight, loading, config>>

----------------------------------------------------------------------------
\* The stitching controls; the card that holds them is rendered only with at
\* least two images (line 394).  Each v-model is updated, then @change runs
\* stitchImages.

controlsShown == Len(uploadedImages) >= 2

layoutChange(v) ==
    /\ controlsShown /\ canStart(uploadedImages)
    /\ v \in layoutOptions
    /\ layoutSelected' = v
    /\ stitchImages("layoutChange", uploadedImages, stitchedImageUrl)
    /\ UNCHANGED <<backgroundSelected, backgroundColor, adjustSizeSelected, loading>>

backgroundChange(v) ==
    /\ controlsShown /\ canStart(uploadedImages)
    /\ v \in backgroundOptions
    /\ backgroundSelected' = v
    /\ stitchImages("backgroundChange", uploadedImages, stitchedImageUrl)
    /\ UNCHANGED <<layoutSelected, backgroundColor, adjustSizeSelected, loading>>

colorChange(v) ==
    /\ controlsShown /\ canStart(uploadedImages)
    /\ backgroundSelected = "Color"
    /\ v \in pickerColors
    /\ backgroundColor' = v
    /\ stitchImages("colorChange", uploadedImages, stitchedImageUrl)
    /\ UNCHANGED <<layoutSelected, backgroundSelected, adjustSizeSelected, loading>>

adjustSizeChange(v) ==
    /\ controlsShown /\ canStart(uploadedImages)
    /\ v \in adjustSizeOptions
    /\ adjustSizeSelected' = v
    /\ stitchImages("adjustSizeChange", uploadedImages, stitchedImageUrl)
    /\ UNCHANGED <<layoutSelected, backgroundSelected, backgroundColor, loading>>

----------------------------------------------------------------------------
\* The per-image buttons.  index counts from 1 here, from 0 in the code.

swapWithoutTemp(s, i, j) == [s EXCEPT ![i] = s[j]]

\* Lines 281-283 and 291-293: the exchange through temp.
swap(s, i, j) == [s EXCEPT ![i] = s[j], ![j] = s[i]]

\* Lines 279-287.
moveImageUp(index) ==
    /\ index \in 1..Len(uploadedImages)
    /\ IF index > 1
       THEN /\ canStart(uploadedImages)
            /\ stitchImages("moveImageUp", swap(uploadedImages, index, index - 1), <<>>)
       ELSE /\ ev' = [op |-> "moveImageUp", stitch |-> "none", ctx |-> "ok"]
            /\ UNCHANGED <<uploadedImages, stitchedImageUrl, isStitching, inflight>>
    /\ UNCHANGED <<config, loading>>

\* Lines 289-297.
moveImageDown(index) ==
    /\ index \in 1..Len(uploadedImages)
    /\ IF index < Len(uploadedImages)
       THEN /\ canStart(uploadedImages)
            /\ stitchImages("moveImageDown", swap(uploadedImages, index, index + 1), <<>>)
       ELSE /\ ev' = [op |-> "moveImageDown", stitch |-> "none", ctx |-> "ok"]
            /\ UNCHANGED <<uploadedImages, stitchedImageUrl, isStitching, inflight>>
    /\ UNCHANGED <<config, loading>>

resetBelowTwo(remaining) == remaining < 2

\* Line 304: when removeImage resets the background and the size adjustment.
resetAfterRemove(remaining) == remaining = 0

\* Lines 299-310.
removeImage(index) ==
    /\ index \in 1..Len(uploadedImages)
    /\ LET images == removeAt(uploadedImages, index)
       IN  /\ canStart(images)
           /\ IF resetAfterRemove(Len(images))
              THEN backgroundSelected' = "Transparent" /\ adjustSizeSelected' = "None"
              ELSE UNCHANGED <<backgroundSelected, adjustSizeSelected>>
           /\ stitchImages("removeImage", images, <<>>)
    /\ UNCHANGED <<layoutSelected, backgroundColor, loading>>

----------------------------------------------------------------------------
\* Spec: the page from its mount, under every interleaving of the user's
\* events with the completions of file loads and image decodes.

Init ==
    /\ uploadedImages = <<>>
    /\ stitchedImageUrl = <<>>
    /\ isStitching = FALSE
    /\ layoutSelected = "Horizontal"
    /\ backgroundSelected = "Transparent"
    /\ backgroundColor = <<"#", "ffffff">>
    /\ adjustSizeSelected = "None"
    /\ inflight = <<>>
    /\ loading = <<>>
    /\ ev = noEvent
    /\ lastMoves = noMoves

Next ==
    \/ (\E files \in SUBSET Catalogue : onFileSelect(files)) /\ UNCHANGED lastMoves
    \/ (\E b \in 1..Len(loading) : \E img \in loading[b] : imageLoaded(b, img)) /\ UNCHANGED lastMoves
    \/ (onFileClear) /\ UNCHANGED lastMoves
    \/ (\E v \in layoutOptions : layoutChange(v)) /\ UNCHANGED lastMoves
    \/ (\E v \in backgroundOptions : backgroundChange(v)) /\ UNCHANGED lastMoves
    \/ (\E v \in pickerColors : colorChange(v)) /\ UNCHANGED lastMoves
    \/ (\E v \in adjustSizeOptions : adjustSizeChange(v)) /\ UNCHANGED lastMoves
    \/ (\E index \in 1..Len(uploadedImages) : moveImageUp(index)) /\ UNCHANGED lastMoves
    \/ (\E index \in 1..Len(uploadedImages) : moveImageDown(index)) /\ UNCHANGED lastMoves
    \/ (\E index \in 1..Len(uploadedImages) : removeImage(index)) /\ UNCHANGED lastMoves
    \/ (\E i \in 1..Len(inflight) : imagesDecoded(i)) /\ UNCHANGED lastMoves

Spec == Init /\ [][Next]_vars

----------------------------------------------------------------------------
\* SpecComposite: stitchImages as a function of its inputs.  The page holds
\* any sequence of 2..MaxLen images of sizes up to MaxDim x MaxDim under any
\* configuration; one change of the layout control runs stitchImages once.

Shapes == [width : 1..MaxDim, height : 1..MaxDim]

InitComposite ==
    /\ uploadedImages \in UNION { [1..n -> Shapes] : n \in 2..MaxLen }
    /\ stitchedImageUrl = <<>>
    /\ isStitching = FALSE
    /\ layoutSelected \in layoutOptions
    /\ backgroundSelected \in backgroundOptions
    /\ backgroundColor = <<"#", "ffffff">>
    /\ adjustSizeSelected \in adjustSizeOptions
    /\ inflight = <<>>
    /\ loading = <<>>
    /\ ev = noEvent
    /\ lastMoves = noMoves

NextComposite ==
    \/ ev = noEvent /\ (\E v \in layoutOptions : layoutChange(v)) /\ UNCHANGED lastMoves
    \/ (\E i \in 1..Len(inflight) : imagesDecoded(i)) /\ UNCHANGED lastMoves

SpecComposite == InitComposite /\ [][NextComposite]_vars

----------------------------------------------------------------------------
\* SpecReorder: the move buttons.  The page holds any sequence of 1..MaxLen
\* of the catalogue's images under the initial configuration, just after the
\* stitchImages call of the upload has ended; from there the images are moved
\* up and down while the started composites finish.  lastMoves remembers the
\* last two moves: which button, which index, the sequence before.

reorderImages == { imageData(f) : f \in { g \in Catalogue : isImageFile(g) } }

afterUpload(images) ==
    composite(images, "Horizontal", "None", "Transparent", <<"#", "ffffff">>,
              [k \in 1..Len(images) |-> TRUE])

InitReorder ==
    /\ uploadedImages \in UNION { [1..n -> reorderImages] : n \in 1..MaxLen }
    /\ stitchedImageUrl = IF insufficientImages(uploadedImages) THEN <<>>
                          ELSE <<afterUpload(uploadedImages).picture>>
    /\ isStitching = FALSE
    /\ layoutSelected = "Horizontal"
    /\ backgroundSelected = "Transparent"
    /\ backgroundColor = <<"#", "ffffff">>
    /\ adjustSizeSelected = "None"
    /\ inflight = <<>>
    /\ loading = <<>>
    /\ ev = IF insufficientImages(uploadedImages)
            THEN [op |-> "imageLoaded", stitch |-> "insufficient", ctx |-> "ok"]
            ELSE [op |-> "imagesDecoded", stitch |-> "success", ctx |-> "ok"]
    /\ lastMoves = noMoves

recordMove(op, index) ==
    lastMoves' = [last |-> [op |-> op, index |-> index, before |-> uploadedImages],
                  prev |-> lastMoves.last]

NextReorder ==
    \/ \E index \in 1..Len(uploadedImages) :
         moveImageUp(index) /\ recordMove("moveImageUp", index)
    \/ \E index \in 1..Len(uploadedImages) :
         moveImageDown(index) /\ recordMove("moveImageDown", index)
    \/ (\E i \in 1..Len(inflight) : imagesDecoded(i)) /\ UNCHANGED lastMoves

SpecReorder == InitReorder /\ [][NextReorder]_vars

----------------------------------------------------------------------------
\* Properties.

stitched == stitchedImageUrl[1]

\* The along-axis extents of the first n draws, added up.
RECURSIVE alongBefore(_, _, _)
alongBefore(draws, n, layout) ==
    IF n = 0 THEN 0
    ELSE alongBefore(draws, n - 1, layout)
         + (IF layout = "Horizontal" THEN draws[n].width ELSE draws[n].height)

\* The target cross-axis extent of the size policy over the input images.
crossTarget(images, layout, adjust) ==
    LET cross == IF layout = "Horizontal"
                 THEN { i.height : i \in Range(images) }
                 ELSE { i.width : i \in Range(images) }
    IN  IF adjust = "Min" THEN mathMin(cross) ELSE mathMax(cross)

\* C1: a successful composite sizes the canvas from the drawn (possibly
\* resized) images: Horizontal gives the sum of their widths by the maximum
\* of their heights, Vertical the maximum of their widths by the sum of
\* their heights; with no size adjustment and Horizontal layout that is the
\* sum of the input widths by the maximum of the input heights.
C1_CanvasBounds ==
    ev.stitch = "success" =>
        /\ layoutSelected = "Horizontal" =>
             /\ stitched.width = sumWidths(stitched.draws)
             /\ stitched.height = mathMax({ d.height : d \in Range(stitched.draws) })
        /\ layoutSelected = "Vertical" =>
             /\ stitched.width = mathMax({ d.width : d \in Range(stitched.draws) })
             /\ stitched.height = sumHeights(stitched.draws)
        /\ (adjustSizeSelected = "None" /\ layoutSelected = "Horizontal") =>
             /\ stitched.width = sumWidths(uploadedImages)
             /\ stitched.height = mathMax({ i.height : i \in Range(uploadedImages) })

\* C1's case: a Vertical composite whose images were enlarged.
C1_Witness ==
    /\ ev.stitch = "success"
    /\ layoutSelected = "Vertical"
    /\ adjustSizeSelected = "Max"
    /\ stitched.height > sumHeights(uploadedImages)
    /\ stitched.width = mathMax({ i.width : i \in Range(uploadedImages) })

\* C2: under Min (Max) every image of a composite has the minimum (maximum)
\* input cross-axis extent T as its cross-axis extent and
\* original_along * T / original_cross, to the pixel, as its along-axis
\* extent; with no size adjustment every image keeps its size.
C2_ResizeToTarget ==
    ev.stitch = "success" =>
        \A k \in 1..Len(stitched.draws) :
            LET d == stitched.draws[k]
                T == crossTarget(uploadedImages, layoutSelected, adjustSizeSelected)
            IN  IF adjustSizeSelected = "None"
                THEN d.width = d.src.width /\ d.height = d.src.height
                ELSE IF layoutSelected = "Horizontal"
                THEN /\ d.height = T
                     /\ d.width * d.src.height <= d.src.width * T
                     /\ d.src.width * T < (d.width + 1) * d.src.height
                ELSE /\ d.width = T
                     /\ d.height * d.src.width <= d.src.height * T
                     /\ d.src.height * T < (d.height + 1) * d.src.width

\* C3: a stitchImages call with fewer than 2 images only signals the error:
\* isStitching and the suspended invocations are as before, and the output
\* slot has the value it had at the call (removeImage has just cleared it).
C3_InsufficientInput ==
    [][ (ev'.stitch \in {"insufficient", "started", "ctxError"}
           /\ Len(uploadedImages') < 2)
        => /\ ev'.stitch = "insufficient"
           /\ isStitching' = isStitching
           /\ inflight' = inflight
           /\ stitchedImageUrl' = IF ev'.op = "removeImage" THEN <<>>
                                  ELSE stitchedImageUrl ]_vars

\* C3's case: the call made with one image while the output slot is filled.
C3_Witness ==
    /\ ev.stitch = "insufficient"
    /\ Len(uploadedImages) = 1
    /\ stitchedImageUrl # <<>>

\* C4: the images of a successful composite are drawn in input order, each
\* once, at cross-axis offset 0 and at the along-axis offset that is the sum
\* of the along-axis extents drawn before; the last ends at the canvas edge.
C4_Placement ==
    ev.stitch = "success" =>
        LET draws == stitched.draws
            n == Len(draws)
        IN  /\ n = Len(uploadedImages)
            /\ \A k \in 1..n :
                 /\ draws[k].src = uploadedImages[k]
                 /\ IF layoutSelected = "Horizontal"
                    THEN /\ draws[k].x = alongBefore(draws, k - 1, layoutSelected)
                         /\ draws[k].y = 0
                    ELSE /\ draws[k].y = alongBefore(draws, k - 1, layoutSelected)
                         /\ draws[k].x = 0
            /\ alongBefore(draws, n, layoutSelected)
                 = IF layoutSelected = "Horizontal" THEN stitched.width
                   ELSE stitched.height

\* C4's case: three resized images side by side.
C4_Witness ==
    /\ ev.stitch = "success"
    /\ layoutSelected = "Horizontal"
    /\ adjustSizeSelected = "Max"
    /\ Len(stitched.draws) = 3
    /\ stitched.draws[2].x > 0
    /\ stitched.draws[3].x > stitched.draws[2].x
    /\ stitched.draws[2].width # stitched.draws[2].src.width

\* C5 as claimed: after a removeImage that leaves fewer than 2 images the
\* output slot is empty, the size adjustment None, the background Transparent.
C5_ResetBelowTwo ==
    (ev.op = "removeImage" /\ Len(uploadedImages) < 2) =>
        /\ stitchedImageUrl = <<>>
        /\ adjustSizeSelected = "None"
        /\ backgroundSelected = "Transparent"

\* C5 as amended: a removeImage that leaves fewer than 2 images leaves the
\* output slot empty; it resets the size adjustment and the background when
\* no image is left, and keeps both when one is left.
C5_ResetWhenEmpty ==
    [][ (ev'.op = "removeImage" /\ Len(uploadedImages') < 2)
        => /\ stitchedImageUrl' = <<>>
           /\ Len(uploadedImages') = 0 =>
                adjustSizeSelected' = "None" /\ backgroundSelected' = "Transparent"
           /\ Len(uploadedImages') = 1 =>
                /\ adjustSizeSelected' = adjustSizeSelected
                /\ backgroundSelected' = backgroundSelected ]_vars

\* C5's case: one image left after a removal, the configuration not reset.
C5_Witness ==
    /\ ev.op = "removeImage"
    /\ Len(uploadedImages) = 1
    /\ stitchedImageUrl = <<>>
    /\ adjustSizeSelected = "Min"
    /\ backgroundSelected = "Color"

\* C6: every step that ends a stitchImages invocation that had set isStitching
\* (the write, the caught draw error, the caught missing context) leaves it
\* FALSE, and it is FALSE whenever no invocation is suspended.
C6_BusyFlagReset ==
    /\ [](inflight = <<>> => ~isStitching)
    /\ [][ ev'.stitch \in {"success", "drawError", "ctxError"}
           => ~isStitching' ]_vars

\* C6's case: an invocation ended by a caught exception, none suspended.
C6_Witness ==
    /\ ev.stitch = "drawError"
    /\ inflight = <<>>
    /\ ~isStitching

\* C7: whenever a 2D context is missing, for the output canvas or for a
\* resize canvas, the invocation takes the failure path and writes nothing.
C7_MissingContextAborts ==
    ev.ctx # "ok" => ev.stitch = "ctxError"

\* C8: at most one stitchImages invocation is between its precondition and
\* its end.
C8_OneInFlight ==
    Len(inflight) <= 1

\* C9, its second half: once no composite is in flight, the output slot is
\* empty when fewer than 2 images are present.
C9_NoStaleOutput ==
    (inflight = <<>> /\ Len(uploadedImages) < 2) => stitchedImageUrl = <<>>

\* C10: with every 2D context available the rest of stitchImages ends on the
\* success path, every drawn image and the canvas of positive size.
C10_NoStepFails ==
    (ev.op = "imagesDecoded" /\ ev.ctx = "ok") =>
        /\ ev.stitch = "success"
        /\ stitched.width > 0 /\ stitched.height > 0
        /\ \A d \in Range(stitched.draws) : d.width > 0 /\ d.height > 0

\* How often x occurs in the sequence s.
occurrences(s, x) == Cardinality({ k \in 1..Len(s) : s[k] = x })

\* t is s with the entries at i and j exchanged: same length, same images as
\* often, every other position as it was.
exchanged(s, t, i, j) ==
    /\ Len(t) = Len(s)
    /\ t[i] = s[j] /\ t[j] = s[i]
    /\ \A k \in 1..Len(s) : k \notin {i, j} => t[k] = s[k]
    /\ \A x \in Range(s) \cup Range(t) : occurrences(t, x) = occurrences(s, x)

\* The step clears the output slot and calls stitchImages over the new
\* sequence: the call passes the precondition and suspends on the decodes of
\* exactly that sequence, unless the output canvas has no 2D context.
recomposes ==
    /\ stitchedImageUrl' = <<>>
    /\ ev'.stitch \in {"started", "ctxError"}
    /\ ev'.stitch = "started" => inflight' = Append(inflight, uploadedImages')
    /\ ev'.stitch = "ctxError" => inflight' = inflight

\* The step leaves the page as it was and calls nothing.
changesNothing ==
    /\ ev'.stitch = "none"
    /\ UNCHANGED <<uploadedImages, stitchedImageUrl, isStitching, inflight,
                   loading, config>>

\* C11: moveImageUp(i) above the first entry and moveImageDown(i) below the
\* last exchange exactly the two neighbours, clear the output slot and start
\* stitchImages over the new sequence; at the first (last) entry they change
\* nothing and start nothing; and moveImageUp(i) followed by
\* moveImageDown(i-1) gives back the order before the two.  (Indices count
\* from 1 here.)
C11_Reorder ==
    [][ LET i == lastMoves'.last.index
            n == Len(uploadedImages)
        IN  /\ ev'.op = "moveImageUp" =>
                 IF i > 1
                 THEN exchanged(uploadedImages, uploadedImages', i, i - 1) /\ recomposes
                 ELSE changesNothing
            /\ ev'.op = "moveImageDown" =>
                 IF i < n
                 THEN exchanged(uploadedImages, uploadedImages', i, i + 1) /\ recomposes
                 ELSE changesNothing
            /\ ( /\ ev'.op = "moveImageDown"
                 /\ lastMoves.last.op = "moveImageUp"
                 /\ lastMoves.last.index > 1
                 /\ i = lastMoves.last.index - 1 )
               => uploadedImages' = lastMoves.last.before ]_vars

\* C11's case: the third of three images moved up, then the second moved
\* down: the order is the first one again, and it differs in between.
C11_Witness ==
    /\ Len(uploadedImages) = 3
    /\ lastMoves.prev.op = "moveImageUp" /\ lastMoves.prev.index = 3
    /\ lastMoves.last.op = "moveImageDown" /\ lastMoves.last.index = 2
    /\ lastMoves.last.before # uploadedImages
    /\ lastMoves.prev.before = uploadedImages
    /\ stitchedImageUrl = <<>>
    /\ ev.stitch = "started"

====
